---- MODULE Spec2Model ----
(***************************************************************************)
(* Model of daily_strategy_cloud.py: the daily report generator.           *)
(*                                                                         *)
(*   Spec         one report cycle: main -> ReportGenerator.generate ->    *)
(*                MarketFetcher.fetch_all || NewsFetcher.fetch_all ->      *)
(*                prompt -> backend -> file -> email.                      *)
(*   AdapterSpec  the two quote adapters as functions of one provider      *)
(*                response each.                                           *)
(*                                                                         *)
(* Numbers.  Prices are integers.  change_pct is held in hundredths of a   *)
(* percent, so +10.00% is 1000.  The sample values are chosen so that the  *)
(* division of the code is exact on every sample that reaches it.          *)
(***************************************************************************)
EXTENDS Integers, Sequences, FiniteSets, TLC

VARIABLES
    settings,       \* Settings(): email_user
    pc,             \* position of ReportGenerator.generate
    mpc,            \* position of MarketFetcher.fetch_all
    task,           \* per quote adapter call: pending / inflight / ok / failed
    slot,           \* per quote adapter call: the result slot asyncio.gather keeps
    doneOrder,      \* the calls of the gather being awaited, in completion order
    quotes,         \* fetch_all's list `quotes`, then the value generate receives
    npc,            \* position of NewsFetcher.fetch_all
    ntask,          \* per feed request: pending / inflight / done
    nslot,          \* per feed request: the result slot asyncio.gather keeps
    news,           \* the value NewsFetcher.fetch_all returned
    market_table,   \* generate's local market_table
    prompt,         \* generate's local prompt
    response,       \* how client.models.generate_content ended
    backendCalls,   \* number of generate_content calls of the cycle
    file,           \* content of <report_dir>/<date>_AI_Daily.md
    delivery,       \* how EmailSender.send ended
    smtpConnections,\* number of smtplib.SMTP(...) connections send tried to open
    emailsSent,     \* number of sendmail calls that went through
    log,            \* the messages logged at warning / error level by generate, send
    retval,         \* what generate returned
    mainLog,        \* the line main logs after generate
    apc,            \* AdapterSpec: position
    raw,            \* AdapterSpec: the provider response under test
    adapted,        \* AdapterSpec: what the adapter did with it
    row,            \* AdapterSpec: what the last to_table_row call returned
    formatCalls     \* AdapterSpec: number of to_table_row calls on the quote

vars == <<settings, pc, mpc, task, slot, doneOrder, quotes, npc, ntask, nslot, news,
          market_table, prompt, response, backendCalls, file, delivery,
          smtpConnections, emailsSent, log, retval, mainLog, apc, raw, adapted,
          row, formatCalls>>

pipelineVars == <<settings, pc, mpc, task, slot, doneOrder, quotes, npc, ntask, nslot,
                  news, market_table, prompt, response, backendCalls, file, delivery,
                  smtpConnections, emailsSent, log, retval, mainLog>>

adapterVars == <<apc, raw, adapted, row, formatCalls>>

-----------------------------------------------------------------------------
(* Bounds of the model *)

\* the largest number of entries a feed returns during a report cycle
MaxFeedEntries == 1

\* the largest number of entries a feed returns when the news fetch is run alone
MaxNewsEntries == 7

\* the largest number of to_table_row calls on one quote
MaxFormatCalls == 2

-----------------------------------------------------------------------------
(* Values *)

\* Python's None, as an adapter result
None == [tag |-> "None"]

\* an exception that left the adapter: the slot of a task that raised
Raised == [tag |-> "Raised"]

\* a float: a finite number, or numpy's inf / -inf / nan
Num(n) == [cls |-> "num", v |-> n]
Inf == [cls |-> "inf", v |-> 0]
NegInf == [cls |-> "-inf", v |-> 0]
NaN == [cls |-> "nan", v |-> 0]

\* the empty display string: formatted_price = "" or None
NoFormat == [pattern |-> "", value |-> 0]

SINA_TICKERS ==
    << [code |-> "sh000001", name |-> "CN SSE Composite", fmt |-> "none"],
       [code |-> "sz399006", name |-> "CN ChiNext", fmt |-> "none"],
       [code |-> "sh518880", name |-> "Gold (CNY)", fmt |-> "gold"] >>

YAHOO_TICKERS ==
    << [code |-> "CNY=X", name |-> "USD/CNY", fmt |-> "fx"],
       [code |-> "BTC-USD", name |-> "Bitcoin", fmt |-> "btc"],
       [code |-> "^TNX", name |-> "US 10Y", fmt |-> "tnx"] >>

\* the adapter calls of a cycle, numbered in declaration order
TICKERS == SINA_TICKERS \o YAHOO_TICKERS
SinaCalls == 1..Len(SINA_TICKERS)
YahooCalls == (Len(SINA_TICKERS) + 1)..Len(TICKERS)
Calls == 1..Len(TICKERS)
SinaIds == [i \in 1..Len(SINA_TICKERS) |-> i]
YahooIds == [i \in 1..Len(YAHOO_TICKERS) |-> Len(SINA_TICKERS) + i]

\* the formatter lambdas of the ticker tables: the display string as (pattern, number)
formatter(fmt, p) ==
    CASE fmt = "gold" -> [pattern |-> "{:.2f} yuan/g", value |-> p * 100]
      [] fmt = "fx"   -> [pattern |-> "{:.4f}", value |-> p]
      [] fmt = "btc"  -> [pattern |-> "$ {:,.2f}", value |-> p]
      [] fmt = "tnx"  -> [pattern |-> "{:.3f}%", value |-> p]
      [] OTHER        -> NoFormat

MarketQuote(name, price, change_pct, formatted_price) ==
    [tag |-> "MarketQuote", name |-> name, price |-> price,
     change_pct |-> change_pct, formatted_price |-> formatted_price]

-----------------------------------------------------------------------------
(* Provider responses *)

\* one comma-separated field of the Sina reply: a number, or text float() rejects
Field(n) == [isnum |-> TRUE, v |-> n]
BadField == [isnum |-> FALSE, v |-> 0]
\* a field that is there and empty: float("") raises ValueError
EmptyField == [isnum |-> FALSE, v |-> 0, text |-> ""]

SamplePrices == {0, 50, 100, 110}
SampleRefs == {0, 50, 100}

\* the Sina reply  var hq_str_<code>="<name>,<open>,<prev_close>,<price>,..."
SinaText(fields) == [kind |-> "text", fields |-> fields]
SinaSample(price, prev) == SinaText(<<BadField, Field(prev), Field(prev), Field(price)>>)
SinaNetErr == [kind |-> "neterr", fields |-> <<>>]
SinaTimedOut == [kind |-> "timeout", fields |-> <<>>]

SinaResponses ==
    {SinaNetErr, SinaTimedOut, SinaText(<<>>), SinaText(<<BadField, Field(100)>>),
     SinaText(<<BadField, Field(100), Field(100), BadField>>),
     SinaText(<<BadField, Field(100), BadField, Field(110)>>),
     SinaText(<<BadField, Field(100), Field(100)>>),
     SinaText(<<BadField, Field(100), Field(100), EmptyField>>)}
    \cup {SinaSample(p, r) : p \in SamplePrices, r \in SampleRefs}

\* what ticker.history(period="2d", interval="60m") gives: the Close column, or an error
YahooFrame(close) == [kind |-> "df", close |-> close]
YahooError == [kind |-> "error", close |-> <<>>]
\* the same with the index of the frame: day[i] is the calendar day of sample i
YahooDatedFrame(close, day) == [kind |-> "df", close |-> close, day |-> day]

YahooResponses ==
    {YahooError, YahooFrame(<<>>)}
    \cup {YahooFrame(<<p>>) : p \in SamplePrices}
    \cup {YahooFrame(<<r, p>>) : r \in SampleRefs, p \in SamplePrices}
    \cup {YahooDatedFrame(<<r, p>>, d) :
              r \in SampleRefs, p \in SamplePrices, d \in {<<1, 1>>, <<1, 2>>}}
    \cup {YahooDatedFrame(<<50, 100, p>>, d) :
              p \in SamplePrices, d \in {<<1, 1, 1>>, <<1, 1, 2>>, <<1, 2, 2>>}}

\* the responses the providers give during a report cycle
PipelineSinaResponses ==
    {SinaNetErr, SinaText(<<>>), SinaText(<<BadField, Field(100)>>),
     SinaSample(110, 0), SinaSample(110, 100)}
PipelineYahooResponses ==
    {YahooError, YahooFrame(<<>>), YahooFrame(<<100, 110>>)}

-----------------------------------------------------------------------------
(* MarketFetcher: the adapters *)

\* how the body of an adapter ended: returned a quote, returned None, or raised
Returned(q) == [how |-> "quote", val |-> q, exc |-> ""]
ReturnedNone == [how |-> "none", val |-> None, exc |-> ""]
Raise(e) == [how |-> "exc", val |-> Raised, exc |-> e]

\* the change taken relative to the current price instead of the reference
PyChangePct_over_price(price, prev) ==
    IF prev = 0 \/ price = 0 THEN Raise("ZeroDivisionError")
    ELSE Returned(Num(((price - prev) * 10000) \div price))

\* Python float division (price - prev) / prev * 100, in hundredths of a percent
PyChangePct(price, prev) ==
    IF prev = 0 THEN Raise("ZeroDivisionError")
    ELSE Returned(Num(((price - prev) * 10000) \div prev))

\* numpy.float64 division: a zero divisor gives inf, -inf or nan and a warning
NpChangePct(price, prev) ==
    IF prev # 0 THEN Num(((price - prev) * 10000) \div prev)
    ELSE IF price > 0 THEN Inf
    ELSE IF price < 0 THEN NegInf
    ELSE NaN

\* the body of the try block of fetch_sina
fetch_sina_body(t, r) ==
    IF r.kind = "neterr" THEN Raise("ClientError")
    ELSE IF r.kind = "timeout" THEN Raise("TimeoutError")
    ELSE IF Len(r.fields) < 2 THEN ReturnedNone
    ELSE IF Len(r.fields) < 4 THEN Raise("IndexError")
    ELSE IF ~r.fields[4].isnum THEN Raise("ValueError")
    ELSE IF ~r.fields[3].isnum THEN Raise("ValueError")
    ELSE LET price == IF r.fields[4].v # 0 THEN r.fields[4].v ELSE r.fields[3].v
             prev_close == r.fields[3].v
             change == PyChangePct(price, prev_close)
         IN  IF change.how = "exc" THEN change
             ELSE Returned(MarketQuote(t.name, price, change.val,
                                       formatter(t.fmt, price)))

\* the body of the try block of fetch_yahoo_sync
fetch_yahoo_body(t, r) ==
    IF r.kind = "error" THEN Raise("YFError")
    ELSE IF Len(r.close) = 0 THEN ReturnedNone
    ELSE LET price == r.close[Len(r.close)]
             prev == r.close[1]
         IN  Returned(MarketQuote(t.name, price, NpChangePct(price, prev),
                                  formatter(t.fmt, price)))

\* a handler that lets the exception go
reraise(b) == b

\* except Exception as e: logger.warning(...); return None
except_return_None(b) ==
    IF b.how = "exc" THEN [how |-> "exc", val |-> None, exc |-> b.exc] ELSE b

fetch_sina(t, r) == except_return_None(fetch_sina_body(t, r))

fetch_yahoo_sync(t, r) == except_return_None(fetch_yahoo_body(t, r))

\* the status a finished call leaves in `task`
TaskStatus(b) == IF b.how = "quote" THEN "ok" ELSE "failed"

-----------------------------------------------------------------------------
(* MarketFetcher.fetch_all *)

\* the list asyncio.gather(*tasks) gives back: one result per argument, in argument order
gather_as_completed(ids) == [i \in 1..Len(ids) |-> slot[doneOrder[i]]]

gather(ids) == [i \in 1..Len(ids) |-> slot[ids[i]]]

\* gather re-raises the exception of a task that raised
AnyRaised(results) == \E i \in 1..Len(results) : results[i] = Raised

\* the test of  [q for q in results if q]
Truthy(q) == q # None

\* quotes.extend([q for q in results if q])
extend(list, results) == list \o SelectSeq(results, Truthy)

AllDone(ids) == \A i \in 1..Len(ids) : task[ids[i]] \in {"ok", "failed"}

\* fetch_all up to the first await: the three fetch_sina coroutines are handed to gather
DispatchSina ==
    /\ pc = "Fetching" /\ mpc = "start"
    /\ mpc' = "sina_gather"
    /\ task' = [c \in Calls |-> IF c \in SinaCalls THEN "inflight" ELSE task[c]]
    /\ UNCHANGED <<settings, pc, slot, doneOrder, quotes, npc, ntask, nslot, news,
                   market_table, prompt, response, backendCalls, file, delivery,
                   smtpConnections, emailsSent, log, retval, mainLog, adapterVars>>

\* a call ends with result b: its slot is filled, its siblings are left alone
Finish(c, b) ==
    /\ task' = [task EXCEPT ![c] = TaskStatus(b)]
    /\ slot' = [slot EXCEPT ![c] = b.val]
    /\ doneOrder' = Append(doneOrder, c)
    /\ UNCHANGED <<settings, pc, mpc, quotes, npc, ntask, nslot, news,
                   market_table, prompt, response, backendCalls, file, delivery,
                   smtpConnections, emailsSent, log, retval, mainLog, adapterVars>>

\* the provider answers (or the connection fails) and fetch_sina runs to its return
SinaRespond(c) ==
    /\ c \in SinaCalls /\ task[c] = "inflight"
    /\ \E r \in PipelineSinaResponses : Finish(c, fetch_sina(TICKERS[c], r))

\* aiohttp.ClientTimeout(total=10) expires: TimeoutError inside fetch_sina's try
SinaTimeout(c) ==
    /\ c \in SinaCalls /\ task[c] = "inflight"
    /\ Finish(c, fetch_sina(TICKERS[c], SinaTimedOut))

\* sina_results = await gather(...) resumes; quotes.extend(...); the session closes;
\* only now are the fetch_yahoo_sync calls submitted to the executor
SinaGathered ==
    /\ mpc = "sina_gather" /\ AllDone(SinaIds)
    /\ LET sina_results == gather(SinaIds)
       IN  IF AnyRaised(sina_results)
           THEN /\ mpc' = "raised"
                /\ UNCHANGED <<task, quotes>>
           ELSE /\ mpc' = "yahoo_gather"
                /\ quotes' = extend(quotes, sina_results)
                /\ task' = [c \in Calls |->
                               IF c \in YahooCalls THEN "inflight" ELSE task[c]]
    /\ doneOrder' = <<>>
    /\ UNCHANGED <<settings, pc, slot, npc, ntask, nslot, news,
                   market_table, prompt, response, backendCalls, file, delivery,
                   smtpConnections, emailsSent, log, retval, mainLog, adapterVars>>

\* the executor thread running fetch_yahoo_sync returns; nothing in the code bounds
\* the time ticker.history takes
YahooReturn(c) ==
    /\ c \in YahooCalls /\ task[c] = "inflight"
    /\ \E r \in PipelineYahooResponses : Finish(c, fetch_yahoo_sync(TICKERS[c], r))

\* yahoo_results = await gather(...); quotes.extend(...): fetch_all is at its return
YahooGathered ==
    /\ mpc = "yahoo_gather" /\ AllDone(YahooIds)
    /\ LET yahoo_results == gather(YahooIds)
       IN  IF AnyRaised(yahoo_results)
           THEN /\ mpc' = "raised"
                /\ UNCHANGED quotes
           ELSE /\ mpc' = "return"
                /\ quotes' = extend(quotes, yahoo_results)
    /\ UNCHANGED <<settings, pc, task, slot, doneOrder, npc, ntask, nslot, news,
                   market_table, prompt, response, backendCalls, file, delivery,
                   smtpConnections, emailsSent, log, retval, mainLog, adapterVars>>

\* return quotes: the locals of fetch_all are gone, the list goes to generate's gather
MarketReturn ==
    /\ mpc = "return"
    /\ mpc' = "returned"
    /\ task' = [c \in Calls |-> "pending"]
    /\ slot' = [c \in Calls |-> None]
    /\ doneOrder' = <<>>
    /\ UNCHANGED <<settings, pc, quotes, npc, ntask, nslot, news,
                   market_table, prompt, response, backendCalls, file, delivery,
                   smtpConnections, emailsSent, log, retval, mainLog, adapterVars>>

-----------------------------------------------------------------------------
(* NewsFetcher *)

SOURCES ==
    << [name |-> "Sina Finance", count |-> 6],
       [name |-> "Zaobao", count |-> 3],
       [name |-> "Yahoo", count |-> 3] >>

Feeds == 1..Len(SOURCES)
FeedIds == [i \in 1..Len(SOURCES) |-> i]

\* a feed of n entries, whose titles are numbered 1..n in feed order
Feed(n) == [kind |-> "feed", entries |-> n]
FeedNetErr == [kind |-> "neterr", entries |-> 0]
FeedTimedOut == [kind |-> "timeout", entries |-> 0]
FeedResponses == {FeedNetErr} \cup {Feed(n) : n \in 0..MaxFeedEntries}

Min(a, b) == IF a <= b THEN a ELSE b

\* fetch_feed without the slice: every entry of the feed becomes a headline
fetch_feed_body_noslice(s, r) ==
    IF r.kind # "feed" THEN [how |-> "exc", val |-> <<>>]
    ELSE [how |-> "list",
          val |-> [k \in 1..r.entries |-> [source |-> s.name, title |-> k]]]

\* the body of the try block of fetch_feed: one headline per entry of entries[:count]
fetch_feed_body(s, r) ==
    IF r.kind # "feed" THEN [how |-> "exc", val |-> <<>>]
    ELSE [how |-> "list",
          val |-> [k \in 1..Min(s.count, r.entries) |-> [source |-> s.name, title |-> k]]]

\* except Exception as e: logger.warning(...); return []
except_return_empty(b) == IF b.how = "exc" THEN [how |-> "exc", val |-> <<>>] ELSE b

fetch_feed(s, r) == except_return_empty(fetch_feed_body(s, r))

RECURSIVE Flatten(_)
\* [item for sublist in results for item in sublist]
Flatten(lists) ==
    IF lists = <<>> THEN <<>> ELSE Head(lists) \o Flatten(Tail(lists))

\* NewsFetcher.fetch_all up to its await: the three fetch_feed coroutines go to gather
DispatchFeeds ==
    /\ pc = "Fetching" /\ npc = "start"
    /\ npc' = "gather"
    /\ ntask' = [f \in Feeds |-> "inflight"]
    /\ UNCHANGED <<settings, pc, mpc, task, slot, doneOrder, quotes, nslot, news,
                   market_table, prompt, response, backendCalls, file, delivery,
                   smtpConnections, emailsSent, log, retval, mainLog, adapterVars>>

\* a feed request ends with result b: its slot is filled
FeedResult(f, b) ==
    /\ ntask' = [ntask EXCEPT ![f] = "done"]
    /\ nslot' = [nslot EXCEPT ![f] = b.val]

FinishFeed(f, b) ==
    /\ FeedResult(f, b)
    /\ UNCHANGED <<settings, pc, mpc, task, slot, doneOrder, quotes, npc, news,
                   market_table, prompt, response, backendCalls, file, delivery,
                   smtpConnections, emailsSent, log, retval, mainLog, adapterVars>>

\* the feed server answers (or the connection fails) and fetch_feed runs to its return
FeedRespond(f) ==
    /\ ntask[f] = "inflight"
    /\ \E r \in FeedResponses : FinishFeed(f, fetch_feed(SOURCES[f], r))

\* aiohttp.ClientTimeout(total=15) expires: TimeoutError inside fetch_feed's try
FeedTimeout(f) ==
    /\ ntask[f] = "inflight"
    /\ FinishFeed(f, fetch_feed(SOURCES[f], FeedTimedOut))

\* results = await gather(...); return "\n".join(all_news): news is held as the
\* sequence of the lines of that string, <<>> being the empty string
FeedsGathered ==
    /\ npc = "gather" /\ \A f \in Feeds : ntask[f] = "done"
    /\ npc' = "returned"
    /\ news' = Flatten([i \in 1..Len(FeedIds) |-> nslot[FeedIds[i]]])
    /\ ntask' = [f \in Feeds |-> "pending"]
    /\ nslot' = [f \in Feeds |-> <<>>]
    /\ UNCHANGED <<settings, pc, mpc, task, slot, doneOrder, quotes,
                   market_table, prompt, response, backendCalls, file, delivery,
                   smtpConnections, emailsSent, log, retval, mainLog, adapterVars>>

-----------------------------------------------------------------------------
(* MarketQuote *)

\* change_pct > 0 on floats: nan compares false
Positive(x) == x.cls = "inf" \/ (x.cls = "num" /\ x.v > 0)

\* an icon test that takes a change of zero as a rise
icon_zero_up(q) ==
    IF Positive(q.change_pct) \/ q.change_pct = Num(0) THEN "up" ELSE "green"

\* MarketQuote.icon
icon(q) == IF Positive(q.change_pct) THEN "up" ELSE "green"

\* MarketQuote.to_table_row: the cells of the row
to_table_row(q) ==
    [name |-> q.name,
     display_price |-> IF q.formatted_price # NoFormat THEN q.formatted_price
                       ELSE [pattern |-> "{:.2f}", value |-> q.price],
     icon |-> icon(q),
     change |-> q.change_pct]

\* a to_table_row that applies the unit transform to the price it holds
to_table_row_call_scaling(q) ==
    [row |-> to_table_row(q),
     self |-> [q EXCEPT !.price = to_table_row(q).display_price.value]]

\* a call q.to_table_row(): the string returned, and the quote after the call; the
\* method assigns to no field
to_table_row_call(q) == [row |-> to_table_row(q), self |-> q]

-----------------------------------------------------------------------------
(* ReportGenerator and main *)

NoTable == [header |-> "", rows |-> <<>>]
NoPrompt == [date |-> "", market_table |-> NoTable, news |-> <<>>]

\* the values of the names that hold a string or None
Pending == "<pending>"
PyNone == "<None>"
NoFile == "<absent>"
Report == "REPORT"

\* ReportGenerator._build_market_table: header + "\n".join(rows)
_build_market_table(qs) ==
    [header |-> "| asset | price | change |",
     rows |-> [i \in 1..Len(qs) |-> to_table_row(qs[i])]]

\* REPORT_PROMPT.format(date=..., market_table=..., news=...)
REPORT_PROMPT_format(date, table, n) ==
    [date |-> date, market_table |-> table, news |-> n]

\* asyncio.gather(market_fetcher.fetch_all(), news_fetcher.fetch_all()) has finished
FetchSettled_market_only == mpc \in {"returned", "raised"}

FetchSettled == mpc \in {"returned", "raised"} /\ npc = "returned"

\* the test  if not response.text
ResponseIsEmpty_never(text) == FALSE

ResponseIsEmpty(text) == text = ""

\* main builds the generator and awaits generate, which starts both fetch_all coroutines
StartCycle ==
    /\ pc = "Idle"
    /\ pc' = "Fetching"
    /\ mpc' = "start"
    /\ npc' = "start"
    /\ UNCHANGED <<settings, task, slot, doneOrder, quotes, ntask, nslot, news,
                   market_table, prompt, response, backendCalls, file, delivery,
                   smtpConnections, emailsSent, log, retval, mainLog, adapterVars>>

\* quotes, news = await gather(...): an exception of fetch_all leaves generate and main
Fetched ==
    /\ pc = "Fetching" /\ FetchSettled
    /\ pc' = IF mpc = "raised" THEN "Raised" ELSE "Building"
    /\ UNCHANGED <<settings, mpc, task, slot, doneOrder, quotes, npc, ntask, nslot, news,
                   market_table, prompt, response, backendCalls, file, delivery,
                   smtpConnections, emailsSent, log, retval, mainLog, adapterVars>>

\* market_table = self._build_market_table(quotes); prompt = REPORT_PROMPT.format(...)
Build ==
    /\ pc = "Building"
    /\ pc' = "Generating"
    /\ market_table' = _build_market_table(quotes)
    /\ prompt' = REPORT_PROMPT_format("DATE", _build_market_table(quotes), news)
    /\ UNCHANGED <<settings, mpc, task, slot, doneOrder, quotes, npc, ntask, nslot, news,
                   response, backendCalls, file, delivery,
                   smtpConnections, emailsSent, log, retval, mainLog, adapterVars>>

\* what self.client.models.generate_content can do: raise, or give a text
BackendOutcomes == {"raise", "", Report}

\* response = generate_content(...); if not response.text: log, return None
\* an exception goes to  except Exception: log, return None
Generate ==
    /\ pc = "Generating"
    /\ \E out \in BackendOutcomes :
        /\ response' = out
        /\ backendCalls' = backendCalls + 1
        /\ IF out = "raise"
           THEN /\ log' = log \cup {"error: generate failed"}
                /\ retval' = PyNone
                /\ pc' = "Failed"
           ELSE IF ResponseIsEmpty(out)
           THEN /\ log' = log \cup {"error: empty content"}
                /\ retval' = PyNone
                /\ pc' = "Failed"
           ELSE /\ pc' = "Persisting"
                /\ UNCHANGED <<log, retval>>
    /\ UNCHANGED <<settings, mpc, task, slot, doneOrder, quotes, npc, ntask, nslot, news,
                   market_table, prompt, file, delivery,
                   smtpConnections, emailsSent, mainLog, adapterVars>>

\* how os.makedirs / open / f.write can end
PersistOutcomes == {"makedirs raises", "open raises", "write raises", "ok"}

\* os.makedirs(...); with open(filepath, "w") as f: f.write(response.text)
\* an OSError goes to  except Exception: log, return None
Persist ==
    /\ pc = "Persisting"
    /\ \E out \in PersistOutcomes :
        /\ file' = CASE out = "ok" -> response
                     [] out = "write raises" -> ""
                     [] OTHER -> file
        /\ IF out = "ok"
           THEN /\ pc' = "Delivering"
                /\ UNCHANGED <<log, retval>>
           ELSE /\ log' = log \cup {"error: generate failed"}
                /\ retval' = PyNone
                /\ pc' = "Failed"
    /\ UNCHANGED <<settings, mpc, task, slot, doneOrder, quotes, npc, ntask, nslot, news,
                   market_table, prompt, response, backendCalls, delivery,
                   smtpConnections, emailsSent, mainLog, adapterVars>>

\* how EmailSender.send can end once a mailbox is configured: markdown / template
\* rendering raises, reading the attachment raises (both outside send's try), the SMTP
\* block raises (caught by send: log, return False), or the mail goes out (return True)
SendOutcomes == {"render raises", "attachment raises", "smtp fails", "sent"}

\* send raised: the exception reaches generate's  except Exception
SendRaised(out) == out \in {"render raises", "attachment raises"}

\* a send that takes every mailbox setting as configured
NoMailbox_never == FALSE

\* EmailSender.send:  if not self.settings.email_user
NoMailbox == settings.email_user = ""

\* what EmailSender.send returns when it returns
SendReturn(d) == d = "sent"

\* self.email_sender.send(...); return response.text
Deliver ==
    /\ pc = "Delivering"
    /\ IF NoMailbox
       THEN /\ delivery' = "skipped"
            /\ log' = log \cup {"warning: no mailbox configured"}
            /\ retval' = response
            /\ pc' = "Done"
            /\ UNCHANGED <<smtpConnections, emailsSent>>
       ELSE \E out \in SendOutcomes :
            /\ delivery' = out
            /\ smtpConnections' = IF SendRaised(out) THEN smtpConnections
                                  ELSE smtpConnections + 1
            /\ emailsSent' = IF out = "sent" THEN emailsSent + 1 ELSE emailsSent
            /\ log' = CASE SendRaised(out) -> log \cup {"error: generate failed"}
                        [] out = "smtp fails" -> log \cup {"error: send failed"}
                        [] OTHER -> log
            /\ retval' = IF SendRaised(out) THEN PyNone ELSE response
            /\ pc' = IF SendRaised(out) THEN "Failed" ELSE "Done"
    /\ UNCHANGED <<settings, mpc, task, slot, doneOrder, quotes, npc, ntask, nslot, news,
                   market_table, prompt, response, backendCalls, file,
                   mainLog, adapterVars>>

\* main:  if report: log "done"  else: log "failed"
MainLogs ==
    /\ pc \in {"Done", "Failed"} /\ mainLog = "none"
    /\ mainLog' = IF retval \notin {PyNone, ""} THEN "info: report done"
                  ELSE "error: report failed"
    /\ UNCHANGED <<settings, pc, mpc, task, slot, doneOrder, quotes, npc, ntask, nslot,
                   news, market_table, prompt, response, backendCalls, file, delivery,
                   smtpConnections, emailsSent, log, retval, adapterVars>>

-----------------------------------------------------------------------------
(* The report cycle *)

IdlePipeline ==
    /\ pc = "Idle" /\ mpc = "idle" /\ npc = "idle"
    /\ task = [c \in Calls |-> "pending"]
    /\ slot = [c \in Calls |-> None]
    /\ doneOrder = <<>>
    /\ quotes = <<>>
    /\ ntask = [f \in Feeds |-> "pending"]
    /\ nslot = [f \in Feeds |-> <<>>]
    /\ news = <<>>
    /\ market_table = NoTable
    /\ prompt = NoPrompt
    /\ response = Pending
    /\ backendCalls = 0
    /\ file = NoFile
    /\ delivery = "none"
    /\ smtpConnections = 0
    /\ emailsSent = 0
    /\ log = {}
    /\ retval = Pending
    /\ mainLog = "none"

NoRow == [name |-> "", display_price |-> NoFormat, icon |-> "", change |-> Num(0)]

IdleAdapter == apc = "off" /\ raw = None /\ adapted = None /\ row = NoRow /\ formatCalls = 0

Init ==
    /\ settings \in {[email_user |-> ""], [email_user |-> "me@example.com"]}
    /\ IdlePipeline
    /\ IdleAdapter

Next ==
    \/ StartCycle
    \/ DispatchSina
    \/ \E c \in SinaCalls : SinaRespond(c)
    \/ \E c \in SinaCalls : SinaTimeout(c)
    \/ SinaGathered
    \/ \E c \in YahooCalls : YahooReturn(c)
    \/ YahooGathered
    \/ MarketReturn
    \/ DispatchFeeds
    \/ \E f \in Feeds : FeedRespond(f)
    \/ \E f \in Feeds : FeedTimeout(f)
    \/ FeedsGathered
    \/ Fetched
    \/ Build
    \/ Generate
    \/ Persist
    \/ Deliver
    \/ MainLogs

Spec == Init /\ [][Next]_vars

\* The scheduling the code guarantees: the event loop resumes every coroutine that can
\* run, and a request made with an aiohttp.ClientTimeout ends by that timeout at the
\* latest.  No provider is obliged to answer, and fetch_yahoo_sync sets no timeout, so
\* SinaRespond, FeedRespond and YahooReturn carry no fairness.
FairSpec ==
    /\ Spec
    /\ WF_vars(StartCycle)
    /\ WF_vars(DispatchSina)
    /\ \A c \in SinaCalls : WF_vars(SinaTimeout(c))
    /\ WF_vars(SinaGathered)
    /\ WF_vars(YahooGathered)
    /\ WF_vars(MarketReturn)
    /\ WF_vars(DispatchFeeds)
    /\ \A f \in Feeds : WF_vars(FeedTimeout(f))
    /\ WF_vars(FeedsGathered)
    /\ WF_vars(Fetched)
    /\ WF_vars(Build)
    /\ WF_vars(Generate)
    /\ WF_vars(Persist)
    /\ WF_vars(Deliver)
    /\ WF_vars(MainLogs)

-----------------------------------------------------------------------------
(* The adapters on one provider response *)

AdapterInputs ==
    {[src |-> "sina", ticker |-> c, resp |-> r] : c \in SinaCalls, r \in SinaResponses}
    \cup
    {[src |-> "yahoo", ticker |-> c, resp |-> r] : c \in YahooCalls, r \in YahooResponses}

AdapterInit ==
    /\ settings = [email_user |-> ""]
    /\ IdlePipeline
    /\ apc = "input"
    /\ raw \in AdapterInputs
    /\ adapted = None
    /\ row = NoRow
    /\ formatCalls = 0

\* fetch_sina on the response
RunSina ==
    /\ apc = "input" /\ raw.src = "sina"
    /\ adapted' = fetch_sina(TICKERS[raw.ticker], raw.resp)
    /\ apc' = "done"
    /\ UNCHANGED <<raw, row, formatCalls, pipelineVars>>

\* fetch_yahoo_sync on the response
RunYahoo ==
    /\ apc = "input" /\ raw.src = "yahoo"
    /\ adapted' = fetch_yahoo_sync(TICKERS[raw.ticker], raw.resp)
    /\ apc' = "done"
    /\ UNCHANGED <<raw, row, formatCalls, pipelineVars>>

\* one call of to_table_row on the quote the adapter returned
FormatRow ==
    /\ apc = "done" /\ adapted.how = "quote"
    /\ formatCalls < MaxFormatCalls
    /\ LET call == to_table_row_call(adapted.val)
       IN  /\ row' = call.row
           /\ adapted' = [adapted EXCEPT !.val = call.self]
    /\ formatCalls' = formatCalls + 1
    /\ UNCHANGED <<apc, raw, pipelineVars>>

AdapterNext == RunSina \/ RunYahoo \/ FormatRow

AdapterSpec == AdapterInit /\ [][AdapterNext]_vars

-----------------------------------------------------------------------------
(* NewsFetcher.fetch_all alone, on feeds whose content is fixed beforehand *)

NewsFeedResponses ==
    {FeedNetErr, FeedTimedOut} \cup {Feed(n) : n \in 0..MaxNewsEntries}

\* raw[f] is how the request for feed f will end
NewsInit ==
    /\ settings = [email_user |-> ""]
    /\ IdlePipeline
    /\ apc = "news"
    /\ raw \in [Feeds -> NewsFeedResponses]
    /\ adapted = None
    /\ row = NoRow
    /\ formatCalls = 0

\* the request for feed f ends and fetch_feed runs to its return; doneOrder records
\* the order in which the requests ended
NewsRespond(f) ==
    /\ ntask[f] = "inflight"
    /\ FeedResult(f, fetch_feed(SOURCES[f], raw[f]))
    /\ doneOrder' = Append(doneOrder, f)
    /\ UNCHANGED <<settings, pc, mpc, task, slot, quotes, npc, news,
                   market_table, prompt, response, backendCalls, file, delivery,
                   smtpConnections, emailsSent, log, retval, mainLog, adapterVars>>

NewsNext ==
    \/ StartCycle
    \/ DispatchFeeds
    \/ \E f \in Feeds : NewsRespond(f)
    \/ FeedsGathered

NewsSpec == NewsInit /\ [][NewsNext]_vars

-----------------------------------------------------------------------------
(* Properties of MarketFetcher.fetch_all *)

\* the place of a quote's ticker in the configuration, SINA_TICKERS then YAHOO_TICKERS
TickerIndex(name) == CHOOSE k \in Calls : TICKERS[k].name = name

AtReturn == mpc = "return"

OkCalls == {c \in Calls : task[c] = "ok"}
FailedCalls == {c \in Calls : task[c] = "failed"}

\* C1: the list fetch_all returns is in configuration order (SINA_TICKERS in order, then
\* YAHOO_TICKERS in order), whatever the order in which the adapter calls completed.
C1_DeclaredOrder ==
    mpc \in {"yahoo_gather", "return", "returned"} =>
        \A i, j \in 1..Len(quotes) :
            i < j => TickerIndex(quotes[i].name) < TickerIndex(quotes[j].name)

\* C1 witness: fetch_all is returning all six quotes and the Yahoo calls completed in
\* the reverse of their declaration order.
C1_Witness ==
    /\ AtReturn
    /\ Len(quotes) = Len(TICKERS)
    /\ doneOrder = <<6, 5, 4>>

\* the part of C2 that is about a state
C2_State ==
    /\ mpc # "raised" /\ pc # "Raised"
    /\ \A c \in Calls : slot[c] # Raised
    /\ AtReturn =>
        /\ Len(quotes) = Cardinality(OkCalls)
        /\ \A c \in OkCalls : \E i \in 1..Len(quotes) : quotes[i] = slot[c]
        /\ \A c \in FailedCalls :
               \A i \in 1..Len(quotes) : quotes[i].name # TICKERS[c].name

\* the part of C2 that is about a step: a call that ends, by failure or not, changes
\* the status and the slot of no other call
C2_Step ==
    \A c \in Calls :
        (task[c] = "inflight" /\ task'[c] # "inflight") =>
            \A d \in Calls \ {c} : task'[d] = task[d] /\ slot'[d] = slot[d]

\* C2: whatever subset of the adapter calls fails (network error, timeout, empty or
\* malformed payload), fetch_all raises nothing, no sibling call is cancelled, and the
\* list it returns holds exactly the quotes of the calls that succeeded.
C2_PartialFailure == []C2_State /\ [][C2_Step]_vars

\* C2 witness: the second source failed, the first and the third gave a quote, and
\* fetch_all is returning.
C2_Witness ==
    /\ AtReturn
    /\ task[1] = "ok" /\ task[2] = "failed" /\ task[3] = "ok"
    /\ Len(quotes) >= 2

\* C8: every adapter call of the cycle runs concurrently with the others: no call is
\* still waiting to be started when another call has already completed.
C8_AllCallsConcurrent ==
    \A c, d \in Calls : ~(task[c] = "pending" /\ task[d] \in {"ok", "failed"})

\* C9: every dispatched adapter call, Sina or Yahoo, eventually completes or is timed
\* out, so fetch_all eventually returns even when a provider never answers.
C9_EveryCallEnds ==
    \A c \in Calls : (task[c] = "inflight") ~> (task[c] # "inflight")

-----------------------------------------------------------------------------
(* Properties of the report cycle *)

\* C3: when fetch_all returned no quote, the market table handed to the prompt holds a
\* single "data unavailable" row.
C3_UnavailableRow ==
    (prompt # NoPrompt /\ quotes = <<>>) => Len(market_table.rows) = 1

GenerationFailed == response \in {"raise", ""}

\* C4: generate returns None (the cycle is Failed) only when the backend raised or
\* returned empty text; with a non-empty backend text the report is returned.
C4_FailedOnlyFromGenerating ==
    /\ (pc = "Failed" \/ retval = PyNone) => GenerationFailed
    /\ pc \in {"Done", "Failed"} /\ response = Report => retval = Report

\* C5: when the backend raises or returns empty text the cycle ends there: the backend
\* was called once, no file is written, no mail is sent, the error is logged, generate
\* returns None and main logs the failure.
C5_GenerationFailureTerminal ==
    /\ backendCalls <= 1
    /\ GenerationFailed =>
        /\ backendCalls = 1
        /\ pc = "Failed"
        /\ retval = PyNone
        /\ file = NoFile
        /\ delivery = "none" /\ smtpConnections = 0 /\ emailsSent = 0
        /\ log \cap {"error: generate failed", "error: empty content"} # {}
        /\ mainLog \in {"none", "error: report failed"}

\* C5 witness: the backend returned empty text and main has logged the failure.
C5_Witness == response = "" /\ mainLog = "error: report failed"

DeliveryFailed == delivery \in {"render raises", "attachment raises", "smtp fails"}

\* C6: when the file was written and the delivery step fails in any way, generate still
\* returns the report text, the failure is logged, and the file is left as written.
C6_DeliveryFailureNotPropagated ==
    (file = Report /\ DeliveryFailed) =>
        /\ retval = Report
        /\ pc = "Done"
        /\ log \cap {"error: generate failed", "error: send failed"} # {}

SuccessEdges ==
    {<<"Idle", "Fetching">>, <<"Fetching", "Building">>, <<"Building", "Generating">>,
     <<"Generating", "Persisting">>, <<"Persisting", "Delivering">>,
     <<"Delivering", "Done">>}

\* the part of C7 that is about a state
C7_State ==
    /\ prompt # NoPrompt => mpc = "returned" /\ npc = "returned"
    /\ backendCalls > 0 => prompt # NoPrompt
    /\ file # NoFile => response = Report /\ backendCalls > 0
    /\ (delivery # "none" \/ emailsSent > 0) => file = Report
    /\ pc = "Done" => prompt # NoPrompt /\ backendCalls = 1 /\ file = Report
                      /\ delivery # "none"

\* the part of C7 that is about a step
C7_Step == pc' # pc => (pc' \in {"Failed", "Raised"} \/ <<pc, pc'>> \in SuccessEdges)

\* C7: the steps of a cycle come in the order Fetching, Building, Generating, Persisting,
\* Delivering, Done: the prompt is built after both fetches returned, the backend is
\* called after the prompt is built, the file is written after a non-empty response and
\* the mail is sent after the file is written.
C7_StepOrder == []C7_State /\ [][C7_Step]_vars

\* C7 witness: a cycle that went all the way and sent the mail.
C7_Witness == pc = "Done" /\ emailsSent = 1 /\ mainLog = "info: report done"

-----------------------------------------------------------------------------
(* Properties of the adapters *)

\* the response is a well-formed sample whose reference baseline is 0
ZeroReference ==
    /\ apc = "done"
    /\ \/ /\ raw.src = "sina"
          /\ raw.resp.kind = "text" /\ Len(raw.resp.fields) >= 4
          /\ raw.resp.fields[3] = Field(0) /\ raw.resp.fields[4].isnum
       \/ /\ raw.src = "yahoo"
          /\ raw.resp.kind = "df" /\ Len(raw.resp.close) >= 1
          /\ raw.resp.close[1] = 0

\* C10: a sample whose previous_reference is 0 raises no division error: the quote is
\* produced, with a change of 0 or an undefined change.
C10_ZeroReferenceGivesQuote ==
    ZeroReference =>
        /\ adapted.exc # "ZeroDivisionError"
        /\ adapted.how = "quote"
        /\ adapted.val.change_pct \in {Num(0), NaN}

\* the Sina reply has a non-zero previous close and a price field that is 0, empty,
\* or missing because the reply ends before it
PriceZeroOrAbsent ==
    /\ apc # "input" /\ raw.src = "sina"
    /\ raw.resp.kind = "text" /\ Len(raw.resp.fields) >= 3
    /\ raw.resp.fields[3].isnum /\ raw.resp.fields[3].v # 0
    /\ \/ Len(raw.resp.fields) = 3
       \/ raw.resp.fields[4] = EmptyField
       \/ raw.resp.fields[4] = Field(0)

\* C11: fetch_sina takes a zero or absent current price as the previous close: it
\* returns a quote whose price is the previous close and whose change_pct is 0.
C11_PriceFallsBackToReference ==
    PriceZeroOrAbsent =>
        /\ adapted.how = "quote"
        /\ adapted.val.price = raw.resp.fields[3].v
        /\ adapted.val.change_pct = Num(0)

\* fetch_yahoo_sync has run on a window of dated samples
DatedWindow ==
    /\ apc # "input" /\ raw.src = "yahoo"
    /\ raw.resp.kind = "df" /\ "day" \in DOMAIN raw.resp
    /\ Len(raw.resp.close) >= 1

\* the samples of the window that are of another day than the last one
OtherDaySamples(r) == {i \in 1..Len(r.close) : r.day[i] # r.day[Len(r.close)]}

\* the reference baseline the windowed-history adapter is to use: the earliest sample
\* of another day than the current one, the current price when there is none
WindowReference(r) ==
    IF OtherDaySamples(r) = {} THEN r.close[Len(r.close)]
    ELSE r.close[CHOOSE i \in OtherDaySamples(r) : \A j \in OtherDaySamples(r) : i <= j]

\* C12: fetch_yahoo_sync takes the last sample as current and the earliest sample of
\* another day as the reference; a window of one single day gives change_pct 0.
C12_WindowReference ==
    (DatedWindow /\ WindowReference(raw.resp) # 0 /\ raw.resp.close[1] # 0) =>
        /\ adapted.how = "quote"
        /\ adapted.val.price = raw.resp.close[Len(raw.resp.close)]
        /\ adapted.val.change_pct.cls = "num"
        /\ adapted.val.change_pct.v * WindowReference(raw.resp)
               = (adapted.val.price - WindowReference(raw.resp)) * 10000
        /\ OtherDaySamples(raw.resp) = {} => adapted.val.change_pct = Num(0)

-----------------------------------------------------------------------------
(* Properties of NewsFetcher *)

\* the place of a source in SOURCES
SourceIndex(name) == CHOOSE f \in Feeds : SOURCES[f].name = name

\* the number of headlines source f is to contribute: min(configured count, entries
\* returned), nothing when the request failed
Contribution(f) ==
    IF raw[f].kind # "feed" THEN 0
    ELSE IF raw[f].entries <= SOURCES[f].count THEN raw[f].entries
    ELSE SOURCES[f].count

\* C13: the pool NewsFetcher.fetch_all returns is, source after source in declaration
\* order, the first min(count, entries returned) headlines of each source in feed
\* order, whatever the order in which the requests ended; a source that failed or
\* returned nothing contributes nothing.
C13_NewsPool ==
    (apc = "news" /\ npc = "returned") =>
        /\ Len(news) = Contribution(1) + Contribution(2) + Contribution(3)
        /\ \A i \in 1..Len(news) :
               /\ news[i].title >= 1
               /\ news[i].title <= Contribution(SourceIndex(news[i].source))
        /\ \A i, j \in 1..Len(news) :
               i < j =>
                   \/ SourceIndex(news[i].source) < SourceIndex(news[j].source)
                   \/ /\ news[i].source = news[j].source
                      /\ news[i].title < news[j].title

\* C13 witness: the first source (6 wanted) returned 4 entries, the second (3 wanted)
\* returned 3, the third failed, the requests ended in reverse order, and the pool
\* has 7 headlines.
C13_Witness ==
    /\ apc = "news" /\ npc = "returned"
    /\ raw = <<Feed(4), Feed(3), FeedNetErr>>
    /\ doneOrder = <<3, 2, 1>>
    /\ Len(news) = 7

\* C14: when every news source failed or returned nothing, the news field of the
\* prompt handed to the backend holds a placeholder marker, not the empty string.
C14_NewsPlaceholder ==
    (prompt # NoPrompt /\ news = <<>>) => prompt.news # <<>>

\* the previous_reference of the raw sample an adapter reads from the response
RawReference ==
    IF raw.src = "sina" THEN raw.resp.fields[3].v ELSE raw.resp.close[1]

\* the adapter has run on a well-formed sample whose previous_reference is not 0
ValidSample ==
    /\ apc \notin {"input", "off", "news"}
    /\ \/ /\ raw.src = "sina"
          /\ raw.resp.kind = "text" /\ Len(raw.resp.fields) >= 4
          /\ raw.resp.fields[3].isnum /\ raw.resp.fields[4].isnum
       \/ /\ raw.src = "yahoo"
          /\ raw.resp.kind = "df" /\ Len(raw.resp.close) >= 1
    /\ RawReference # 0

\* C15: for a sample with a non-zero previous_reference, change_pct (in hundredths of
\* a percent) is (price - previous_reference) / previous_reference * 100, and it is
\* exactly 0 when price equals previous_reference, in both adapters.
C15_ChangeFormula ==
    ValidSample =>
        /\ adapted.how = "quote"
        /\ adapted.val.change_pct.cls = "num"
        /\ adapted.val.change_pct.v * RawReference
               = (adapted.val.price - RawReference) * 10000
        /\ adapted.val.price = RawReference => adapted.val.change_pct = Num(0)

\* C15 witness: fetch_sina has run on price 110 against previous close 100 and the
\* change is +10.00%.
C15_Witness ==
    /\ ValidSample
    /\ raw.src = "sina" /\ raw.resp = SinaSample(110, 100)
    /\ adapted.val.change_pct = Num(1000)

-----------------------------------------------------------------------------
(* Properties of MarketQuote *)

\* C16: the icon of a row is chosen from the sign of change_pct alone: the rising
\* icon exactly when change_pct > 0, the other icon when change_pct <= 0, zero
\* included; price 110 against reference 100 gives the rising icon.
C16_IconFromSign ==
    (apc = "done" /\ formatCalls > 0) =>
        LET c == adapted.val.change_pct
            above == (c.cls = "num" /\ c.v > 0) \/ c.cls = "inf"
            notAbove == (c.cls = "num" /\ c.v <= 0) \/ c.cls = "-inf"
        IN  /\ row.icon = "up" <=> above
            /\ notAbove => row.icon = "green"
            /\ row.icon \in {"up", "green"}

\* C16 witness: price 110 against previous close 100, formatted: +10.00% and rising.
C16_Witness ==
    /\ apc = "done" /\ formatCalls > 0
    /\ raw.src = "sina" /\ raw.resp = SinaSample(110, 100)
    /\ row.change = Num(1000) /\ row.icon = "up"

\* the price the adapter reads from the response, before any unit transform
RawPrice ==
    IF raw.src = "sina"
    THEN IF raw.resp.fields[4].v # 0 THEN raw.resp.fields[4].v ELSE raw.resp.fields[3].v
    ELSE raw.resp.close[Len(raw.resp.close)]

\* the part of C17 that is about a state: the quote holds the price as read, the
\* formatter's output is only in formatted_price, and the row shows that output
C17_State ==
    (apc = "done" /\ adapted.how = "quote") =>
        /\ adapted.val.price = RawPrice
        /\ adapted.val.formatted_price = formatter(TICKERS[raw.ticker].fmt, RawPrice)
        /\ formatCalls > 0 => row.change = adapted.val.change_pct

\* the part of C17 that is about a step: a to_table_row call leaves price and
\* change_pct as they were and returns what the call before it returned
C17_Step ==
    formatCalls' > formatCalls =>
        /\ adapted'.val.price = adapted.val.price
        /\ adapted'.val.change_pct = adapted.val.change_pct
        /\ formatCalls > 0 => row' = row

\* C17: to_table_row gives the same string however often it is called on a quote and
\* changes neither price nor change_pct; the unit transform only makes the display
\* string and leaves the price that change_pct was computed from.
C17_FormattingIsPure == []C17_State /\ [][C17_Step]_vars

\* C17 witness: the gold quote (price shown times 100) formatted twice: the quote
\* still holds 110 and the row shows 11000.
C17_Witness ==
    /\ apc = "done" /\ formatCalls = 2
    /\ raw.ticker = 3 /\ adapted.val.price = 110
    /\ row.display_price.value = 11000

-----------------------------------------------------------------------------
(* Properties of EmailSender *)

\* C18: with no sender mailbox configured, send opens no SMTP connection and returns
\* False, and the cycle still ends with the report in the file and returned by
\* generate.
C18_NoMailboxSkipsSend ==
    settings.email_user = "" =>
        /\ smtpConnections = 0 /\ emailsSent = 0
        /\ pc = "Delivering" => file = response /\ response \notin {Pending, ""}
        /\ delivery # "none" =>
            /\ delivery = "skipped" /\ ~SendReturn(delivery)
            /\ pc = "Done"
            /\ file = response /\ retval = response /\ response \notin {Pending, ""}

\* C18 witness: a cycle without a mailbox that skipped the send, wrote the report and
\* returned it to main.
C18_Witness ==
    /\ settings.email_user = "" /\ delivery = "skipped"
    /\ file = Report /\ retval = Report
    /\ mainLog = "info: report done"

====
